---- MODULE Spec2Model ----
(***************************************************************************)
(* A model of the Bloom filter of src/bloomfilter.go: the BloomFilter      *)
(* struct, New, Add, Contains, Count, EstimatedFalsePositiveRate,          *)
(* OptimalNumhashes, Reset, Union, Serialize and Deserialize, with the     *)
(* sync.RWMutex each filter carries and the hash.Hash64 objects            *)
(* (fnv.New64) its probes share.                                           *)
(*                                                                         *)
(* Go slices are functions over 0..n-1, so that indices read as in the     *)
(* source.  Digests are kept to their low 16 bits: FNV-1 multiplies and    *)
(* xors, so the low 16 bits of the 64-bit digest are exactly what 16-bit   *)
(* arithmetic computes, and "digest % size" is the source's index for      *)
(* every size that divides 2^16.                                           *)
(*                                                                         *)
(* New, as written, leaves the bounds of hashFuncs on its last iteration   *)
(* (i <= numHashes) for every numHashes, so it never returns.  The filter  *)
(* operations are modelled on the object New has laid out at that point    *)
(* (lines 20-28: size zeroed bits, numHashes FNV probes, count 0); the     *)
(* calls of New inside Union and Deserialize panic as the source does.     *)
(***************************************************************************)
EXTENDS Integers, Sequences, FiniteSets, TLC

(* ------------------------------ bounds ------------------------------- *)
MaxSize == 8
MaxHashes == 2
NumItems == 3
MaxCalls == 2

Filters == {"a", "b"}
Sizes == {MaxSize \div 2, MaxSize}
HashCounts == {1, MaxHashes}

\* The byte sequences the callers pass: "", "b", "a", "aa", "ab", ... ("" and
\* "b" share their probe index in both sizes; "a" and "aa" have their own).
Elements == <<<<>>, <<98>>, <<97>>, <<97, 97>>, <<97, 98>>, <<97, 97, 97>>>>

Items == {Elements[n] : n \in 1..NumItems}

(* ------------------------- slices and bytes -------------------------- *)
SliceLen(s) == Cardinality(DOMAIN s)

MakeSlice(n, zero) == [i \in 0..(n - 1) |-> zero]

RECURSIVE BitXor(_, _)
BitXor(x, y) ==
    IF x = 0 THEN y
    ELSE IF y = 0 THEN x
    ELSE ((x + y) % 2) + 2 * BitXor(x \div 2, y \div 2)

RECURSIVE BitOr(_, _)
BitOr(x, y) ==
    IF x = 0 THEN y
    ELSE IF y = 0 THEN x
    ELSE (IF x % 2 = 1 \/ y % 2 = 1 THEN 1 ELSE 0) + 2 * BitOr(x \div 2, y \div 2)

RECURSIVE BitAnd(_, _)
BitAnd(x, y) ==
    IF x = 0 \/ y = 0 THEN 0
    ELSE (IF x % 2 = 1 /\ y % 2 = 1 THEN 1 ELSE 0) + 2 * BitAnd(x \div 2, y \div 2)

(* ------------------- hash.Hash64 as fnv.New64 gives ------------------- *)
HashMod == 65536
offset64 == 8997
prime64 == 435
NilHash == -1

fnvNew64 == offset64

HashReset(h) == offset64

RECURSIVE HashWriteFrom(_, _, _)
HashWriteFrom(h, data, n) ==
    IF n > Len(data) THEN h
    ELSE HashWriteFrom(BitXor((h * prime64) % HashMod, data[n]), data, n + 1)

HashWrite(h, data) == HashWriteFrom(h, data, 1)

Sum64(h) == h

(* ------------------------------- New --------------------------------- *)
NewLiteral(size, numHashes) ==
    [bitset |-> MakeSlice(size, FALSE),
     size |-> size,
     hashFuncs |-> MakeSlice(numHashes, NilHash),
     count |-> 0]

NewLoopCond(i, numHashes) == i <= numHashes

RECURSIVE NewLoop(_, _, _)
NewLoop(bf, i, numHashes) ==
    IF ~NewLoopCond(i, numHashes) THEN [panic |-> FALSE, bf |-> bf]
    ELSE IF i \notin DOMAIN bf.hashFuncs THEN [panic |-> TRUE, bf |-> bf]
    ELSE NewLoop([bf EXCEPT !.hashFuncs[i] = fnvNew64], i + 1, numHashes)

New(size, numHashes) ==
    IF size < 0 \/ numHashes < 0 THEN [panic |-> TRUE, bf |-> NewLiteral(0, 0)]
    ELSE NewLoop(NewLiteral(size, numHashes), 0, numHashes)

(* --------------------------- sync.RWMutex ---------------------------- *)
(* The filter's mu, with the fields and the arithmetic of Go's            *)
(* sync.RWMutex: readerCount (minus rwmutexMaxReaders while a writer is   *)
(* announced), readerWait, the two semaphores and the writers' mutex w.   *)
rwmutexMaxReaders == 1073741824

NewRWMutex ==
    [w |-> FALSE, readerCount |-> 0, readerWait |-> 0, readerSem |-> 0, writerSem |-> 0]

\* RLock: readerCount.Add(1); a negative result means a writer is pending
\* and the caller sleeps on readerSem.
RLock(m) ==
    LET m1 == [m EXCEPT !.readerCount = @ + 1]
    IN [m |-> m1, blocked |-> m1.readerCount < 0]

\* RUnlock: readerCount.Add(-1); on a negative result rUnlockSlow, which is
\* fatal when no reader held the lock and otherwise counts down readerWait.
RUnlock(m) ==
    LET r == m.readerCount - 1
        m1 == [m EXCEPT !.readerCount = r]
    IN IF r >= 0 THEN [m |-> m1, fatal |-> FALSE]
       ELSE IF r + 1 = 0 \/ r + 1 = -rwmutexMaxReaders THEN [m |-> m1, fatal |-> TRUE]
       ELSE [m |-> [m1 EXCEPT !.readerWait = @ - 1,
                              !.writerSem = IF m.readerWait - 1 = 0 THEN @ + 1 ELSE @],
             fatal |-> FALSE]

\* Lock, once w is free: take w, announce the writer, and sleep on
\* writerSem when active readers remain to be waited for.
Lock(m) ==
    LET r == m.readerCount
        wait == IF r # 0 THEN m.readerWait + r ELSE m.readerWait
    IN [m |-> [m EXCEPT !.w = TRUE, !.readerCount = r - rwmutexMaxReaders, !.readerWait = wait],
        blocked |-> r # 0 /\ wait # 0]

\* Unlock: readerCount.Add(rwmutexMaxReaders), fatal when no writer was
\* announced; wakes the r readers that arrived meanwhile and frees w.
Unlock(m) ==
    LET r == m.readerCount + rwmutexMaxReaders
        m1 == [m EXCEPT !.readerCount = r]
    IN IF r >= rwmutexMaxReaders THEN [m |-> m1, fatal |-> TRUE]
       ELSE [m |-> [m1 EXCEPT !.readerSem = IF r > 0 THEN @ + r ELSE @, !.w = FALSE],
             fatal |-> FALSE]

(* ------------------- the bodies of the operations -------------------- *)
\* A probe of Add that leaves out h.Reset(), hashing on top of whatever the
\* shared hash last digested.
AddProbeNoReset(bf, item, j) ==
    LET h == HashWrite(bf.hashFuncs[j], item)
        index == Sum64(h) % bf.size
    IN [bf EXCEPT !.hashFuncs[j] = h, !.bitset[index] = TRUE]

\* A probe of Add that flips the bit instead of setting it.
AddProbeFlip(bf, item, j) ==
    LET h == HashWrite(HashReset(bf.hashFuncs[j]), item)
        index == Sum64(h) % bf.size
    IN [bf EXCEPT !.hashFuncs[j] = h, !.bitset[index] = ~@]

\* Lines 39-42: one probe of Add, on hashFuncs[j].
AddProbe(bf, item, j) ==
    LET h == HashWrite(HashReset(bf.hashFuncs[j]), item)
        index == Sum64(h) % bf.size
    IN [bf EXCEPT !.hashFuncs[j] = h, !.bitset[index] = TRUE]

RECURSIVE AddLoop(_, _, _)
AddLoop(bf, item, j) ==
    IF j >= SliceLen(bf.hashFuncs) THEN bf
    ELSE AddLoop(AddProbe(bf, item, j), item, j + 1)

AddBody(bf, item) == AddLoop(bf, item, 0)

\* Lines 50-58: the probes of Contains, returning at the first unset bit.
RECURSIVE ContainsLoop(_, _, _)
ContainsLoop(bf, item, j) ==
    IF j >= SliceLen(bf.hashFuncs) THEN [bf |-> bf, val |-> TRUE]
    ELSE LET h == HashWrite(HashReset(bf.hashFuncs[j]), item)
             index == Sum64(h) % bf.size
             bf1 == [bf EXCEPT !.hashFuncs[j] = h]
         IN IF ~bf1.bitset[index] THEN [bf |-> bf1, val |-> FALSE]
            ELSE ContainsLoop(bf1, item, j + 1)

\* A Contains that counts the queries in count.
ContainsBodyCounting(bf, item) ==
    LET c == ContainsLoop(bf, item, 0)
    IN [bf |-> [c.bf EXCEPT !.count = @ + 1], val |-> c.val]

ContainsBody(bf, item) == ContainsLoop(bf, item, 0)

CountBody(bf) == bf.count

\* Lines 71-73: the k, n and m that line 75 evaluates
\* math.Pow(1 - math.Exp(-k * n / m), k) on; the float arithmetic itself is
\* left symbolic.
EstimatedFalsePositiveRateBody(bf) ==
    [k |-> SliceLen(bf.hashFuncs), n |-> bf.count, m |-> bf.size]

\* math.Log(2), to six decimals.
Ln2Num == 693147
Ln2Den == 1000000

\* Line 79: int(math.Ceil(float64(bf.size) / float64(expectedElements) * math.Log(2))),
\* for expectedElements > 0.
OptimalNumhashesBody(bf, expectedElements) ==
    (bf.size * Ln2Num + expectedElements * Ln2Den - 1) \div (expectedElements * Ln2Den)

\* A Reset that leaves the bit array as it is.
ResetBitsetKeep(bf) == bf

\* Line 85.
ResetBitset(bf) == [bf EXCEPT !.bitset = MakeSlice(bf.size, FALSE)]

\* Line 86.
ResetCount(bf) == [bf EXCEPT !.count = 0]

ResetBody(bf) == ResetCount(ResetBitset(bf))

\* Line 90.
UnionMismatch(bf, other) ==
    bf.size # other.size \/ SliceLen(bf.hashFuncs) # SliceLen(other.hashFuncs)

\* Lines 99-104.
UnionBody(bf, other) ==
    LET r == New(bf.size, SliceLen(bf.hashFuncs))
    IN IF r.panic THEN [panic |-> TRUE, result |-> <<>>]
       ELSE [panic |-> FALSE,
             result |-> <<[r.bf EXCEPT
                             !.bitset = [i \in DOMAIN bf.bitset |-> bf.bitset[i] \/ other.bitset[i]],
                             !.count = bf.count + other.count]>>]

(* ---------------------- encoding/binary, bytes ----------------------- *)
RECURSIVE PutUint64From(_, _, _, _)
PutUint64From(b, off, v, i) ==
    IF i >= 8 THEN b
    ELSE PutUint64From([b EXCEPT ![off + i] = v % 256], off, v \div 256, i + 1)

\* binary.LittleEndian.PutUint64(b[off:off+8], v)
PutUint64(b, off, v) == PutUint64From(b, off, v, 0)

RECURSIVE Uint64From(_, _, _)
Uint64From(b, off, i) ==
    IF i >= 8 THEN 0
    ELSE LET hi == Uint64From(b, off, i + 1)
         IN IF hi = 0 THEN b[off + i] ELSE b[off + i] + 256 * hi

\* binary.LittleEndian.Uint64(b[off:off+8])
Uint64(b, off) == Uint64From(b, off, 0)

Shl1(n) == 2 ^ n

(* ---------------------------- Serialize ------------------------------ *)
\* Line 113.
SerializedLen(bf) == 8 + 8 + bf.size \div 8 + 1

RECURSIVE SerializeLoop(_, _, _)
SerializeLoop(serialized, bf, i) ==
    IF i >= SliceLen(bf.bitset) THEN serialized
    ELSE SerializeLoop(
            IF bf.bitset[i]
            THEN [serialized EXCEPT ![16 + i \div 8] = BitOr(@, Shl1(i % 8))]
            ELSE serialized,
            bf, i + 1)

SerializeBody(bf) ==
    LET s0 == MakeSlice(SerializedLen(bf), 0)
        s1 == PutUint64(s0, 0, bf.size)
        s2 == PutUint64(s1, 8, bf.count)
    IN SerializeLoop(s2, bf, 0)

(* --------------------------- Deserialize ----------------------------- *)
\* Lines 133-137, for data of length n: data[16 + i/8] is checked against
\* the length.
RECURSIVE DeserializeLoop(_, _, _, _)
DeserializeLoop(bf, data, n, i) ==
    IF i >= bf.size THEN [panic |-> FALSE, result |-> <<bf>>]
    ELSE IF 16 + i \div 8 >= n THEN [panic |-> TRUE, result |-> <<>>]
    ELSE DeserializeLoop(
            IF BitAnd(data[16 + i \div 8], Shl1(i % 8)) # 0
            THEN [bf EXCEPT !.bitset[i] = TRUE]
            ELSE bf,
            data, n, i + 1)

\* Deserialize(data) for a slice of length n over the bytes data (its
\* capacity is SliceLen(data) >= n).  The slice expressions data[0:8] and
\* data[8:16] are checked against the capacity, not the length: past says
\* that they read bytes at or beyond the length.
DeserializeBody(data, n) ==
    IF SliceLen(data) < 16 THEN [panic |-> TRUE, past |-> FALSE, result |-> <<>>]
    ELSE LET size == Uint64(data, 0)
             count == Uint64(data, 8)
             r == New(size, 1)
             d == IF r.panic THEN [panic |-> TRUE, result |-> <<>>]
                  ELSE DeserializeLoop([r.bf EXCEPT !.count = count], data, n, 0)
         IN [panic |-> d.panic, past |-> n < 16, result |-> d.result]

\* data[0:n]
Prefix(data, n) == [i \in 0..(n - 1) |-> data[i]]

(* ------------------------------ state -------------------------------- *)
Threads == {"t1", "t2", "t3"}

VARIABLES
    filters,    \* the BloomFilter objects: bitset, size, hashFuncs, count
    mu,         \* each filter's sync.RWMutex
    halted,     \* the process has ended: a fatal error, or every caller asleep
    last,       \* the call made last by the single caller and how it ended
                \* (for Reset, val, num and k: whether a bit was set, the size and
                \* the probe count when it was called)
    result,     \* the *BloomFilter the last call returned: <<bf>>, or <<>> for none/nil
    added,      \* per filter, the items passed to Add since construction or the last Reset
    th          \* the concurrent callers: each one's call, position and locals

vars == <<filters, mu, halted, last, result, added, th>>

Call(op, f, g, item, out, val, num, k) ==
    [op |-> op, f |-> f, g |-> g, item |-> item, out |-> out, val |-> val, num |-> num, k |-> k]

NoCall == Call("none", "a", "a", <<>>, "ok", FALSE, 0, 0)

Idle == [pc |-> "idle", op |-> "none", f |-> "a", g |-> "a", item |-> <<>>, j |-> 0,
         index |-> 0, val |-> FALSE, calls |-> 0]

\* The filters a program holds: objects laid out as New lays them out.
InitFilters ==
    /\ \E size \in Sizes, numHashes \in HashCounts :
          filters = [f \in Filters |-> IF f = "a" THEN New(MaxSize, 1).bf
                                       ELSE New(size, numHashes).bf]
    /\ mu = [f \in Filters |-> NewRWMutex]
    /\ halted = FALSE
    /\ result = <<>>
    /\ added = [f \in Filters |-> {}]

Init ==
    /\ InitFilters
    /\ last = NoCall
    /\ th = [t \in Threads |-> Idle]

(* ------------- the operations, called by a single caller -------------- *)
\* A call that takes the read lock, runs and releases it (defer RUnlock).
ReadLocked(m) == RUnlock(RLock(m).m).m

WriteLocked(m) == Unlock(Lock(m).m).m

Add(f, item) ==
    /\ ~halted
    /\ filters' = [filters EXCEPT ![f] = AddBody(@, item)]
    /\ mu' = [mu EXCEPT ![f] = ReadLocked(@)]
    /\ added' = [added EXCEPT ![f] = @ \cup {item}]
    /\ last' = Call("Add", f, f, item, "ok", FALSE, 0, 0)
    /\ result' = <<>>
    /\ UNCHANGED <<halted, th>>

Contains(f, item) ==
    /\ ~halted
    /\ LET c == ContainsBody(filters[f], item)
       IN /\ filters' = [filters EXCEPT ![f] = c.bf]
          /\ last' = Call("Contains", f, f, item, "ok", c.val, 0, 0)
    /\ mu' = [mu EXCEPT ![f] = ReadLocked(@)]
    /\ result' = <<>>
    /\ UNCHANGED <<halted, added, th>>

Count(f) ==
    /\ ~halted
    /\ last' = Call("Count", f, f, <<>>, "ok", FALSE, CountBody(filters[f]), 0)
    /\ mu' = [mu EXCEPT ![f] = ReadLocked(@)]
    /\ result' = <<>>
    /\ UNCHANGED <<filters, halted, added, th>>

\* last.k, last.num and last.val: the k and n the estimate is computed on,
\* and whether it is the exact 0 that n = 0 gives.
EstimatedFalsePositiveRate(f) ==
    /\ ~halted
    /\ LET e == EstimatedFalsePositiveRateBody(filters[f])
       IN last' = Call("EstimatedFalsePositiveRate", f, f, <<>>, "ok", e.n = 0 /\ e.k > 0, e.n, e.k)
    /\ mu' = [mu EXCEPT ![f] = ReadLocked(@)]
    /\ result' = <<>>
    /\ UNCHANGED <<filters, halted, added, th>>

\* OptimalNumhashes takes no lock.
OptimalNumhashes(f, expectedElements) ==
    /\ ~halted
    /\ last' = Call("OptimalNumhashes", f, f, <<>>, "ok", FALSE,
                    OptimalNumhashesBody(filters[f], expectedElements), expectedElements)
    /\ result' = <<>>
    /\ UNCHANGED <<filters, mu, halted, added, th>>

Reset(f) ==
    /\ ~halted
    /\ filters' = [filters EXCEPT ![f] = ResetBody(@)]
    /\ mu' = [mu EXCEPT ![f] = WriteLocked(@)]
    /\ added' = [added EXCEPT ![f] = {}]
    /\ last' = Call("Reset", f, f, <<>>, "ok",
                    \E i \in DOMAIN filters[f].bitset : filters[f].bitset[i],
                    filters[f].size, SliceLen(filters[f].hashFuncs))
    /\ result' = <<>>
    /\ UNCHANGED <<halted, th>>

\* A Union that merges other's bits into the receiver and returns it.
UnionCallInPlace(fs, ms, f, g) ==
    IF UnionMismatch(fs[f], fs[g])
    THEN [out |-> "nil", mu |-> ms, filters |-> fs, result |-> <<>>]
    ELSE LET merged == [fs[f] EXCEPT
                          !.bitset = [i \in DOMAIN fs[f].bitset |-> fs[f].bitset[i] \/ fs[g].bitset[i]],
                          !.count = fs[f].count + fs[g].count]
         IN [out |-> "ok", mu |-> ms, filters |-> [fs EXCEPT ![f] = merged], result |-> <<merged>>]

\* bf.Union(other) for bf = filters[f], other = filters[g], run to its end:
\* how it ends ("nil", "ok", "panic", or the process ending "fatal" or in
\* "deadlock"), the locks it leaves, the filters it leaves and what it returns.
UnionCall(fs, ms, f, g) ==
    IF UnionMismatch(fs[f], fs[g])
    THEN [out |-> "nil", mu |-> ms, filters |-> fs, result |-> <<>>]
    ELSE LET l == Lock(ms[f])
             ms1 == [ms EXCEPT ![f] = l.m]
             rl == RLock(ms1[g])
             ms2 == [ms1 EXCEPT ![g] = rl.m]
             body == UnionBody(fs[f], fs[g])
             d1 == RUnlock(ms2[f])
             ms3 == [ms2 EXCEPT ![f] = d1.m]
             d2 == Unlock(ms3[f])
             ms4 == [ms3 EXCEPT ![f] = d2.m]
         IN IF l.blocked THEN [out |-> "deadlock", mu |-> ms1, filters |-> fs, result |-> <<>>]
            ELSE IF rl.blocked THEN [out |-> "deadlock", mu |-> ms2, filters |-> fs, result |-> <<>>]
            ELSE IF d1.fatal THEN [out |-> "fatal", mu |-> ms3, filters |-> fs, result |-> <<>>]
            ELSE IF d2.fatal THEN [out |-> "fatal", mu |-> ms4, filters |-> fs, result |-> <<>>]
            ELSE IF body.panic THEN [out |-> "panic", mu |-> ms4, filters |-> fs, result |-> <<>>]
            ELSE [out |-> "ok", mu |-> ms4, filters |-> fs, result |-> body.result]

Union(f, g) ==
    /\ ~halted
    /\ LET u == UnionCall(filters, mu, f, g)
       IN /\ filters' = u.filters
          /\ mu' = u.mu
          /\ result' = u.result
          /\ halted' = (u.out \in {"fatal", "deadlock"})
          /\ last' = Call("Union", f, g, <<>>, u.out, FALSE, 0, 0)
    /\ UNCHANGED <<added, th>>

Serialize(f) ==
    /\ ~halted
    /\ last' = Call("Serialize", f, f, <<>>, "ok", FALSE, SliceLen(SerializeBody(filters[f])), 0)
    /\ mu' = [mu EXCEPT ![f] = ReadLocked(@)]
    /\ result' = <<>>
    /\ UNCHANGED <<filters, halted, added, th>>

\* Deserialize(data), for data the first n bytes of what Serialize gives for
\* filters[f] (all of it, or a truncation), as a slice of capacity c: a copy
\* of those bytes (c = n) or the slice expression serialized[:n] (c the
\* whole length).  last.val: bytes at or beyond the length were read.
DeserializeLens(bf) == {0, 16, SerializedLen(bf) - 1, SerializedLen(bf)}

Deserialize(f, n, c) ==
    /\ ~halted
    /\ LET d == DeserializeBody(Prefix(SerializeBody(filters[f]), c), n)
       IN /\ result' = d.result
          /\ last' = Call("Deserialize", f, f, <<>>, IF d.panic THEN "panic" ELSE "ok", d.past, n, c)
    /\ UNCHANGED <<filters, mu, halted, added, th>>

NewCall(size, numHashes) ==
    /\ ~halted
    /\ LET r == New(size, numHashes)
       IN /\ result' = IF r.panic THEN <<>> ELSE <<r.bf>>
          /\ last' = Call("New", "a", "a", <<>>, IF r.panic THEN "panic" ELSE "ok", FALSE, size, numHashes)
    /\ UNCHANGED <<filters, mu, halted, added, th>>

\* A single caller adding to, querying and resetting filter b, whose size
\* and probe count range over Sizes and HashCounts.
Next ==
    \/ \E item \in Items : Add("b", item)
    \/ \E item \in Items : Contains("b", item)
    \/ Count("b")
    \/ Reset("b")

Spec == Init /\ [][Next]_vars

\* A single caller filling and resetting both filters and calling Union.
UnionNext ==
    \/ \E f \in Filters, item \in Items : Add(f, item)
    \/ \E f \in Filters : Reset(f)
    \/ \E f \in Filters, g \in Filters : Union(f, g)

UnionSpec == Init /\ [][UnionNext]_vars

\* A single caller using every operation of filter b, and Union on both
\* filters.
ApiNext ==
    \/ \E item \in Items : Add("b", item)
    \/ \E item \in Items : Contains("b", item)
    \/ Count("b")
    \/ EstimatedFalsePositiveRate("b")
    \/ \E expectedElements \in 1..MaxCalls : OptimalNumhashes("b", expectedElements)
    \/ Reset("b")
    \/ \E f \in Filters, g \in Filters : Union(f, g)
    \/ Serialize("b")

ApiSpec == Init /\ [][ApiNext]_vars

\* The codec and the constructor, on the filters as Add leaves them.
CodecNext ==
    \/ \E f \in Filters, item \in Items : Add(f, item)
    \/ \E f \in Filters : Serialize(f)
    \/ \E f \in Filters : \E n \in DeserializeLens(filters[f]) :
            \E c \in {n, SerializedLen(filters[f])} : Deserialize(f, n, c)
    \/ \E size \in Sizes \cup {0}, numHashes \in HashCounts \cup {0} : NewCall(size, numHashes)

CodecSpec == Init /\ [][CodecNext]_vars

(* ------------ the operations, called by concurrent callers ------------ *)
(* Each caller is a goroutine stepping through one call at a time.  A     *)
(* step is one method call on the mutex or on a hash.Hash64, or one       *)
(* statement on the filter's fields.                                      *)
Me(t) == th[t]

Goto(t, pc) == th' = [th EXCEPT ![t].pc = pc]

Return(t) == th' = [th EXCEPT ![t] = [Idle EXCEPT !.calls = Me(t).calls]]

Start(t, op, pc, f, g, item) ==
    /\ ~halted
    /\ Me(t).pc = "idle"
    /\ Me(t).calls < MaxCalls
    /\ th' = [th EXCEPT ![t] = [Idle EXCEPT !.pc = pc, !.op = op, !.f = f, !.g = g,
                                           !.item = item, !.calls = Me(t).calls + 1]]
    /\ UNCHANGED <<filters, mu, halted, last, result, added>>

StartAdd(t, f, item) == Start(t, "Add", "rlock", f, f, item)

StartContains(t, f, item) == Start(t, "Contains", "rlock", f, f, item)

StartCount(t, f) == Start(t, "Count", "rlock", f, f, <<>>)

StartSerialize(t, f) == Start(t, "Serialize", "rlock", f, f, <<>>)

StartReset(t, f) == Start(t, "Reset", "lock", f, f, <<>>)

StartUnion(t, f, g) == Start(t, "Union", "ucheck", f, g, <<>>)

\* Where a call goes once it holds the read lock, and once the write lock.
AfterRLock(op) == IF op \in {"Add", "Contains"} THEN "hreset" ELSE "read"

AfterLock(op) == IF op = "Reset" THEN "clearbits" ELSE "urlock"

\* bf.mu.RLock() of Add, Contains, Count and Serialize.
DoRLock(t) ==
    /\ ~halted /\ Me(t).pc = "rlock"
    /\ LET r == RLock(mu[Me(t).f])
       IN /\ mu' = [mu EXCEPT ![Me(t).f] = r.m]
          /\ Goto(t, IF r.blocked THEN "rwait" ELSE AfterRLock(Me(t).op))
    /\ UNCHANGED <<filters, halted, last, result, added>>

\* Asleep on readerSem until a writer's Unlock releases it.
DoRWait(t) ==
    /\ ~halted /\ Me(t).pc = "rwait"
    /\ mu[Me(t).f].readerSem > 0
    /\ mu' = [mu EXCEPT ![Me(t).f].readerSem = @ - 1]
    /\ Goto(t, AfterRLock(Me(t).op))
    /\ UNCHANGED <<filters, halted, last, result, added>>

\* h.Reset() on the filter's shared hashFuncs[j].
HReset(t) ==
    /\ ~halted /\ Me(t).pc = "hreset"
    /\ filters' = [filters EXCEPT ![Me(t).f].hashFuncs[Me(t).j] = HashReset(@)]
    /\ Goto(t, "hwrite")
    /\ UNCHANGED <<mu, halted, last, result, added>>

\* h.Write(item)
HWrite(t) ==
    /\ ~halted /\ Me(t).pc = "hwrite"
    /\ filters' = [filters EXCEPT ![Me(t).f].hashFuncs[Me(t).j] = HashWrite(@, Me(t).item)]
    /\ Goto(t, "hsum")
    /\ UNCHANGED <<mu, halted, last, result, added>>

\* index := h.Sum64() % uint64(bf.size)
HSum(t) ==
    /\ ~halted /\ Me(t).pc = "hsum"
    /\ LET bf == filters[Me(t).f]
       IN th' = [th EXCEPT ![t].index = Sum64(bf.hashFuncs[Me(t).j]) % bf.size,
                           ![t].pc = IF Me(t).op = "Add" THEN "setbit" ELSE "testbit"]
    /\ UNCHANGED <<filters, mu, halted, last, result, added>>

\* bf.bitset[index] = true, and the loop's next round or its end.
SetBit(t) ==
    /\ ~halted /\ Me(t).pc = "setbit"
    /\ filters' = [filters EXCEPT ![Me(t).f].bitset[Me(t).index] = TRUE]
    /\ th' = [th EXCEPT ![t].j = @ + 1,
                        ![t].pc = IF Me(t).j + 1 < SliceLen(filters[Me(t).f].hashFuncs)
                                  THEN "hreset" ELSE "runlock"]
    /\ UNCHANGED <<mu, halted, last, result, added>>

\* if !bf.bitset[index] { return false }, the next round, or return true.
TestBit(t) ==
    /\ ~halted /\ Me(t).pc = "testbit"
    /\ LET bf == filters[Me(t).f]
       IN th' = IF ~bf.bitset[Me(t).index]
                THEN [th EXCEPT ![t].val = FALSE, ![t].pc = "runlock"]
                ELSE IF Me(t).j + 1 < SliceLen(bf.hashFuncs)
                THEN [th EXCEPT ![t].j = @ + 1, ![t].pc = "hreset"]
                ELSE [th EXCEPT ![t].val = TRUE, ![t].pc = "runlock"]
    /\ UNCHANGED <<filters, mu, halted, last, result, added>>

\* The body of Count (return bf.count) and of Serialize (lines 113-123).
Read(t) ==
    /\ ~halted /\ Me(t).pc = "read"
    /\ th' = [th EXCEPT ![t].index = IF Me(t).op = "Count" THEN CountBody(filters[Me(t).f])
                                     ELSE SliceLen(SerializeBody(filters[Me(t).f])),
                        ![t].pc = "runlock"]
    /\ UNCHANGED <<filters, mu, halted, last, result, added>>

\* The deferred bf.mu.RUnlock() of Add, Contains, Count and Serialize.
DoRUnlock(t) ==
    /\ ~halted /\ Me(t).pc = "runlock"
    /\ LET r == RUnlock(mu[Me(t).f])
       IN /\ mu' = [mu EXCEPT ![Me(t).f] = r.m]
          /\ halted' = r.fatal
          /\ IF r.fatal THEN UNCHANGED th ELSE Return(t)
    /\ added' = IF Me(t).op = "Add" THEN [added EXCEPT ![Me(t).f] = @ \cup {Me(t).item}] ELSE added
    /\ UNCHANGED <<filters, last, result>>

\* bf.mu.Lock() of Reset and of Union, once the writers' mutex w is free.
DoLock(t) ==
    /\ ~halted /\ Me(t).pc = "lock"
    /\ ~mu[Me(t).f].w
    /\ LET l == Lock(mu[Me(t).f])
       IN /\ mu' = [mu EXCEPT ![Me(t).f] = l.m]
          /\ Goto(t, IF l.blocked THEN "lwait" ELSE AfterLock(Me(t).op))
    /\ UNCHANGED <<filters, halted, last, result, added>>

\* Asleep on writerSem until the last active reader's RUnlock releases it.
DoLWait(t) ==
    /\ ~halted /\ Me(t).pc = "lwait"
    /\ mu[Me(t).f].writerSem > 0
    /\ mu' = [mu EXCEPT ![Me(t).f].writerSem = @ - 1]
    /\ Goto(t, AfterLock(Me(t).op))
    /\ UNCHANGED <<filters, halted, last, result, added>>

\* bf.bitset = make([]bool, bf.size)
ClearBits(t) ==
    /\ ~halted /\ Me(t).pc = "clearbits"
    /\ filters' = [filters EXCEPT ![Me(t).f] = ResetBitset(@)]
    /\ added' = [added EXCEPT ![Me(t).f] = {}]
    /\ Goto(t, "clearcount")
    /\ UNCHANGED <<mu, halted, last, result>>

\* bf.count = 0
ClearCount(t) ==
    /\ ~halted /\ Me(t).pc = "clearcount"
    /\ filters' = [filters EXCEPT ![Me(t).f] = ResetCount(@)]
    /\ Goto(t, "unlock")
    /\ UNCHANGED <<mu, halted, last, result, added>>

\* The deferred bf.mu.Unlock() of Reset.
DoUnlock(t) ==
    /\ ~halted /\ Me(t).pc = "unlock"
    /\ LET u == Unlock(mu[Me(t).f])
       IN /\ mu' = [mu EXCEPT ![Me(t).f] = u.m]
          /\ halted' = u.fatal
          /\ IF u.fatal THEN UNCHANGED th ELSE Return(t)
    /\ UNCHANGED <<filters, last, result, added>>

\* Line 90, before any lock is taken: return nil on a mismatch.
UCheck(t) ==
    /\ ~halted /\ Me(t).pc = "ucheck"
    /\ IF UnionMismatch(filters[Me(t).f], filters[Me(t).g]) THEN Return(t) ELSE Goto(t, "lock")
    /\ result' = <<>>
    /\ UNCHANGED <<filters, mu, halted, last, added>>

\* other.mu.RLock()
URLock(t) ==
    /\ ~halted /\ Me(t).pc = "urlock"
    /\ LET r == RLock(mu[Me(t).g])
       IN /\ mu' = [mu EXCEPT ![Me(t).g] = r.m]
          /\ Goto(t, IF r.blocked THEN "urwait" ELSE "unew")
    /\ UNCHANGED <<filters, halted, last, result, added>>

URWait(t) ==
    /\ ~halted /\ Me(t).pc = "urwait"
    /\ mu[Me(t).g].readerSem > 0
    /\ mu' = [mu EXCEPT ![Me(t).g].readerSem = @ - 1]
    /\ Goto(t, "unew")
    /\ UNCHANGED <<filters, halted, last, result, added>>

\* Lines 99-104: New and the merge, or New's panic (val: the call is panicking).
UNew(t) ==
    /\ ~halted /\ Me(t).pc = "unew"
    /\ LET body == UnionBody(filters[Me(t).f], filters[Me(t).g])
       IN /\ th' = [th EXCEPT ![t].val = body.panic, ![t].pc = "udefer1"]
          /\ result' = body.result
    /\ UNCHANGED <<filters, mu, halted, last, added>>

\* Line 97, the deferred call that runs first: bf.mu.RUnlock().
UDefer1(t) ==
    /\ ~halted /\ Me(t).pc = "udefer1"
    /\ LET r == RUnlock(mu[Me(t).f])
       IN /\ mu' = [mu EXCEPT ![Me(t).f] = r.m]
          /\ halted' = r.fatal
          /\ IF r.fatal THEN UNCHANGED th ELSE Goto(t, "udefer2")
    /\ UNCHANGED <<filters, last, result, added>>

\* Line 96, the deferred call that runs second: bf.mu.Unlock().
UDefer2(t) ==
    /\ ~halted /\ Me(t).pc = "udefer2"
    /\ LET u == Unlock(mu[Me(t).f])
       IN /\ mu' = [mu EXCEPT ![Me(t).f] = u.m]
          /\ halted' = u.fatal
          /\ IF u.fatal THEN UNCHANGED th
             ELSE IF Me(t).val THEN Goto(t, "panic") ELSE Return(t)
    /\ UNCHANGED <<filters, last, result, added>>

\* A panic leaving Union: the caller recovers it, or it ends the process.
Recover(t) ==
    /\ ~halted /\ Me(t).pc = "panic"
    /\ Return(t)
    /\ UNCHANGED <<filters, mu, halted, last, result, added>>

Crash(t) ==
    /\ ~halted /\ Me(t).pc = "panic"
    /\ halted' = TRUE
    /\ UNCHANGED <<filters, mu, last, result, added, th>>

ReadSteps(t) == DoRLock(t) \/ DoRWait(t) \/ Read(t) \/ DoRUnlock(t)

ProbeSteps(t) == HReset(t) \/ HWrite(t) \/ HSum(t) \/ SetBit(t) \/ TestBit(t)

WriteSteps(t) == DoLock(t) \/ DoLWait(t) \/ ClearBits(t) \/ ClearCount(t) \/ DoUnlock(t)

UnionSteps(t) ==
    \/ UCheck(t) \/ URLock(t) \/ URWait(t) \/ UNew(t)
    \/ UDefer1(t) \/ UDefer2(t) \/ Recover(t) \/ Crash(t)

(* Two callers adding to and querying filter b, with no writer about. *)
RaceThreads == {"t1", "t2"}

RaceNext ==
    \E t \in RaceThreads :
        \/ \E item \in Items : StartAdd(t, "b", item)
        \/ \E item \in Items : StartContains(t, "b", item)
        \/ DoRLock(t)
        \/ ProbeSteps(t)
        \/ DoRUnlock(t)

RaceSpec == Init /\ [][RaceNext]_vars

(* Two callers querying filter b at the same time, after a single caller *)
(* has filled it: no Add and no Reset runs once the first query began.   *)
QueryNext ==
    \/ \E item \in Items : (\A t \in Threads : th[t].calls = 0) /\ Add("b", item)
    \/ \E t \in RaceThreads :
            \/ \E item \in Items : StartContains(t, "b", item)
            \/ DoRLock(t)
            \/ HReset(t) \/ HWrite(t) \/ HSum(t) \/ TestBit(t)
            \/ DoRUnlock(t)

QuerySpec == Init /\ [][QueryNext]_vars

(* Callers of Reset, Union and the read-locked Count on both filters. *)
LockNext ==
    \E t \in Threads :
        \/ \E f \in Filters : StartCount(t, f)
        \/ \E f \in Filters : StartReset(t, f)
        \/ \E f \in Filters, g \in Filters : StartUnion(t, f, g)
        \/ ReadSteps(t)
        \/ WriteSteps(t)
        \/ UnionSteps(t)

LockSpec == Init /\ [][LockNext]_vars

(* ------------------------------ claims -------------------------------- *)
\* The bit indices Contains probes for item (lines 51-53).
ProbeIndices(bf, item) ==
    {Sum64(HashWrite(HashReset(bf.hashFuncs[j]), item)) % bf.size : j \in DOMAIN bf.hashFuncs}

AllIdle == \A t \in Threads : th[t].pc = "idle"

\* C1: no false negatives.  In every state a single caller can reach, for
\* every filter and every item passed to Add since the filter was built or
\* last Reset, Contains returns true; and a Contains call that was made for
\* such an item has returned true.
NoFalseNegatives ==
    /\ \A f \in Filters : \A e \in added[f] : ContainsBody(filters[f], e).val
    /\ (last.op = "Contains" /\ last.item \in added[last.f]) => last.val

\* C1 witness: Contains has returned true for an added item of a filter that
\* was added to more than once and that still rejects some other item.
NoFalseNegativesWitness ==
    /\ last.op = "Contains" /\ last.item \in added[last.f] /\ last.val
    /\ Cardinality(added[last.f]) >= 2
    /\ \E e \in Items : ~ContainsBody(filters[last.f], e).val

\* C2: concurrent Add and Contains calls are safe.  Once every overlapping
\* call has returned, Contains is true for every item a completed Add was
\* given (no Reset having run).
ConcurrentAddsKept ==
    AllIdle => \A f \in Filters : \A e \in added[f] : ContainsBody(filters[f], e).val

\* C3: every Add call increments insertedCount (count) by exactly one.
AddIncrementsCount ==
    [][last'.op = "Add" => filters'[last'.f].count = filters[last'.f].count + 1]_vars

\* C4: Reset clears state.  Right after Reset returns every bit of the filter
\* is false, count is 0, Contains is false for every item, and size and the
\* number of probes are what they were when Reset was called (last.num and
\* last.k); and in every state Contains is true for an item only when items
\* added since the last Reset cover all its probe bits.
ResetClearsState ==
    /\ last.op = "Reset" =>
            LET bf == filters[last.f]
            IN /\ bf.size = last.num
               /\ DOMAIN bf.bitset = 0..(last.num - 1)
               /\ \A i \in DOMAIN bf.bitset : ~bf.bitset[i]
               /\ bf.count = 0
               /\ SliceLen(bf.hashFuncs) = last.k
               /\ \A e \in Items : ~ContainsBody(bf, e).val
    /\ \A f \in Filters : \A e \in Items :
            ContainsBody(filters[f], e).val =>
                \A i \in ProbeIndices(filters[f], e) :
                    \E x \in added[f] : i \in ProbeIndices(filters[f], x)

\* C4 witness: Reset has just returned on a filter that held set bits when
\* it was called, and all its bits are false.
ResetClearsStateWitness ==
    /\ last.op = "Reset" /\ last.val
    /\ \A i \in DOMAIN filters[last.f].bitset : ~filters[last.f].bitset[i]

\* The statements of a call that read or write the filter's bits or count.
Touches(t, f) ==
    \/ th[t].f = f /\ th[t].pc \in {"setbit", "testbit", "read", "clearbits", "clearcount"}
    \/ th[t].pc = "unew" /\ (th[t].f = f \/ th[t].g = f)

\* Reset holds the write lock and has not released it yet.
InReset(t, f) ==
    th[t].op = "Reset" /\ th[t].f = f /\ th[t].pc \in {"clearbits", "clearcount", "unlock"}

\* C5: Reset is atomic.  While a Reset is between taking and releasing the
\* write lock of a filter, no other caller is at a statement that reads or
\* writes that filter's bits or count.
ResetIsExclusive ==
    \A f \in Filters : \A t \in Threads : \A u \in Threads \ {t} :
        ~(InReset(t, f) /\ Touches(u, f))

Compatible(f, g) == ~UnionMismatch(filters[f], filters[g])

\* C6: Union of two filters of equal size and probe count succeeds and
\* returns a new filter of that size and probe count, whose bits are the OR
\* of the operands' bits and whose count is the sum of their counts.
UnionReturnsOr ==
    (last.op = "Union" /\ Compatible(last.f, last.g)) =>
        /\ last.out = "ok"
        /\ Len(result) = 1
        /\ LET bf == filters[last.f]
               other == filters[last.g]
               u == result[1]
           IN /\ u.size = bf.size
              /\ SliceLen(u.hashFuncs) = SliceLen(bf.hashFuncs)
              /\ DOMAIN u.bitset = 0..(bf.size - 1)
              /\ \A i \in DOMAIN u.bitset : u.bitset[i] = (bf.bitset[i] \/ other.bitset[i])
              /\ u.count = bf.count + other.count

\* C7: monotone union.  Whatever either operand of a Union of compatible
\* filters contains, the filter Union returns contains.
MonotoneUnion ==
    (last.op = "Union" /\ Compatible(last.f, last.g)) =>
        \A e \in Items :
            (ContainsBody(filters[last.f], e).val \/ ContainsBody(filters[last.g], e).val)
                => (Len(result) = 1 /\ ContainsBody(result[1], e).val)

\* C8: Union of filters that differ in size or probe count fails with an
\* explicit error; it never returns nil.
UnionMismatchIsError ==
    (last.op = "Union" /\ ~Compatible(last.f, last.g)) => last.out = "error"

\* The fields of a filter a caller can observe: bits, size, probe count, count.
Observable(bf) == <<bf.bitset, bf.size, SliceLen(bf.hashFuncs), bf.count>>

\* C9: Union does not mutate its inputs.  However a Union call ends, the
\* bits, size, probe count and count of every filter are as before the call.
UnionKeepsOperands ==
    [][last'.op = "Union" =>
        \A f \in Filters : Observable(filters'[f]) = Observable(filters[f])]_vars

\* C9 witness: a Union call on two compatible filters that both hold set
\* bits has ended.
UnionKeepsOperandsWitness ==
    /\ last.op = "Union" /\ last.f # last.g /\ Compatible(last.f, last.g)
    /\ \E i \in DOMAIN filters[last.f].bitset : filters[last.f].bitset[i]
    /\ \E i \in DOMAIN filters[last.g].bitset : filters[last.g].bitset[i]

\* C10: round trip.  Deserialize of what Serialize gives for a filter
\* returns a filter of the same size and count that answers Contains as the
\* filter does for every item.
RoundTrip ==
    (last.op = "Deserialize" /\ last.num = SerializedLen(filters[last.f])) =>
        /\ last.out = "ok"
        /\ Len(result) = 1
        /\ result[1].size = filters[last.f].size
        /\ result[1].count = filters[last.f].count
        /\ \A e \in Items :
              ContainsBody(result[1], e).val = ContainsBody(filters[last.f], e).val

\* C11: New with size 0 or 0 probes fails with a construction error returned
\* to the caller and returns no filter; and no filter has size 0.
NewRejectsZero ==
    /\ (last.op = "New" /\ (last.num = 0 \/ last.k = 0)) =>
            (last.out = "error" /\ result = <<>>)
    /\ \A f \in Filters : filters[f].size > 0

\* C12: for size > 0 and at least one probe, New returns a filter of size
\* zeroed bits, count 0 and exactly numHashes probes, all of them set.
NewCompletes ==
    (last.op = "New" /\ last.num > 0 /\ last.k >= 1) =>
        /\ last.out = "ok"
        /\ Len(result) = 1
        /\ result[1].size = last.num
        /\ DOMAIN result[1].bitset = 0..(last.num - 1)
        /\ \A i \in DOMAIN result[1].bitset : ~result[1].bitset[i]
        /\ result[1].count = 0
        /\ DOMAIN result[1].hashFuncs = 0..(last.k - 1)
        /\ \A i \in DOMAIN result[1].hashFuncs : result[1].hashFuncs[i] # NilHash

\* The length section 6 of the spec gives the encoding of a filter of this size.
EncodedLen(size) == 16 + (size + 7) \div 8

\* C13: Deserialize rejects every input shorter than 16 + ceil(size/8) bytes
\* with a malformed-input error, and reads no byte at or beyond the input's
\* length.
DeserializeRejectsShort ==
    last.op = "Deserialize" =>
        /\ last.num < EncodedLen(filters[last.f].size) => last.out = "error"
        /\ ~last.val

\* C14: Serialize returns exactly 16 + ceil(size/8) bytes: size in bytes
\* 0..7 and count in bytes 8..15, little-endian, and bit i in byte 16 + i/8
\* at bit position i mod 8.
SerializeLayout ==
    last.op = "Serialize" =>
        LET bf == filters[last.f]
            serialized == SerializeBody(bf)
        IN /\ last.num = EncodedLen(bf.size)
           /\ DOMAIN serialized = 0..(EncodedLen(bf.size) - 1)
           /\ Uint64(serialized, 0) = bf.size
           /\ Uint64(serialized, 8) = bf.count
           /\ \A i \in DOMAIN bf.bitset :
                 bf.bitset[i] = (BitAnd(serialized[16 + i \div 8], Shl1(i % 8)) # 0)

\* Contains has computed the value it returns and has yet to release the lock.
Returning(t) == th[t].op = "Contains" /\ th[t].pc = "runlock"

\* C15: determinism.  With no Add or Reset running, a Contains(e) call
\* returns what Contains(e) returns when called alone on the filter, and two
\* overlapping Contains(e) calls return the same value.
ContainsDeterministic ==
    /\ \A t \in Threads :
          Returning(t) => th[t].val = ContainsBody(filters[th[t].f], th[t].item).val
    /\ \A t \in Threads : \A u \in Threads :
          (Returning(t) /\ Returning(u) /\ th[t].f = th[u].f /\ th[t].item = th[u].item)
              => th[t].val = th[u].val

\* The indices of the bits of a filter that are set.
SetBits(bf) == {i \in DOMAIN bf.bitset : bf.bitset[i]}

LocksReleased ==
    last.op # "none" =>
        /\ last.out \notin {"fatal", "deadlock"}
        /\ \A f \in Filters : mu[f] = NewRWMutex

\* A caller inside a call, asleep on a lock it asked for.
Waiting(t) ==
    \/ th[t].pc = "lock" /\ mu[th[t].f].w
    \/ th[t].pc = "lwait" /\ mu[th[t].f].writerSem = 0
    \/ th[t].pc = "rwait" /\ mu[th[t].f].readerSem = 0
    \/ th[t].pc = "urwait" /\ mu[th[t].g].readerSem = 0

\* No caller inside a call can take a step: each of them is asleep on a lock,
\* and only a caller inside a call releases one.
NoneRuns == \A t \in Threads : th[t].pc # "idle" => Waiting(t)

\* C18: Union never waits for a lock forever.  No state has a Union caller
\* asleep on a lock while no caller inside a call can run to release it.
UnionNeverStuck ==
    ~(~halted /\ NoneRuns /\ \E t \in Threads : th[t].op = "Union" /\ Waiting(t))

\* The bit index probe j of a filter gives item (lines 39-41).
ProbeIndex(bf, j, item) == Sum64(HashWrite(HashReset(bf.hashFuncs[j]), item)) % bf.size

\* C19: the probes are independent.  The filter an Add has run on, when it
\* has at least two probes and two bits, has for any two distinct probes some
\* element they give different bit indices: Add is not held to one bit.
ProbesIndependent ==
    (last.op = "Add" /\ SliceLen(filters[last.f].hashFuncs) >= 2 /\ filters[last.f].size >= 2) =>
        LET bf == filters[last.f]
        IN \A i \in DOMAIN bf.hashFuncs : \A j \in DOMAIN bf.hashFuncs \ {i} :
              \E n \in DOMAIN Elements :
                  ProbeIndex(bf, i, Elements[n]) # ProbeIndex(bf, j, Elements[n])

\* The calls that only query a filter.
Queries == {"Contains", "Count", "EstimatedFalsePositiveRate", "OptimalNumhashes", "Serialize"}

\* C20: count changes only through Add and Reset.  A query leaves the bits,
\* size, probe count and count of every filter as they were; a step that
\* changes a filter's count is an Add to it that adds one or a Reset of it
\* that leaves 0; and count decreases in no step but a Reset.
CountFrame ==
    [][/\ last'.op \in Queries =>
            \A f \in Filters : Observable(filters'[f]) = Observable(filters[f])
       /\ \A f \in Filters :
            filters'[f].count # filters[f].count =>
                /\ last'.f = f
                /\ \/ last'.op = "Add" /\ filters'[f].count = filters[f].count + 1
                   \/ last'.op = "Reset" /\ filters'[f].count = 0
       /\ \A f \in Filters :
            filters'[f].count < filters[f].count => last'.op = "Reset"]_vars

\* C20 witness: the false-positive estimate has been asked of a filter that
\* holds added items, after which its count is still what Count reports.
CountFrameWitness ==
    /\ last.op = "EstimatedFalsePositiveRate"
    /\ added[last.f] # {}
    /\ last.num = CountBody(filters[last.f])

====
